---------------------------- MODULE Spec2Model ----------------------------
(***************************************************************************)
(* Model of EventsTrace (non-GPL/Events/EventsTrace/EventsTrace.c), the    *)
(* command-line front end of the ebpf events library: option parsing, the  *)
(* SIGINT handler, context construction, the poll loop, the dispatch       *)
(* callback with the printf calls of its out_* functions, the JSON string  *)
(* printer and the rewriting of the argv array.                            *)
(*                                                                         *)
(* A uint64_t bit mask is modelled as the set of its set bit positions     *)
(* (a subset of 0..63): `|` is \cup, `&` is \cap, 0 is {} and UINT64_MAX   *)
(* is 0..63.  TLC's integers are 32 bits wide, so the set is the faithful  *)
(* representation of the 64-bit value.                                     *)
(*                                                                         *)
(* The library behind EbpfEvents.h (ebpf_event_ctx__new, __next,           *)
(* __get_features, __destroy) is not part of the sources at hand; its      *)
(* operations are modelled from the written specification of the engine.   *)
(***************************************************************************)
EXTENDS Integers, Sequences, FiniteSets, TLC

VARIABLES
    pc,                    \* position of main()
    cmdline,               \* the argument vector the program was started with
    argv,                  \* the arguments argp_parse has not handled yet
    g_events_env,          \* uint64_t g_events_env
    g_print_features_init, \* bool g_print_features_init
    g_unbuffer_stdout,     \* bool g_unbuffer_stdout
    g_libbpf_verbose,      \* bool g_libbpf_verbose
    handler,               \* TRUE once signal(SIGINT, sig_int) succeeded
    exiting,               \* volatile sig_atomic_t exiting
    err,                   \* int err of main()
    verbose_logging,       \* TRUE once ebpf_set_verbose_logging() ran
    ctx_state,             \* "None", "Created", "Running", "Destroyed"
    ctx_mask,              \* selection mask the context was constructed with
    ctx_features,          \* feature mask computed at construction
    ctx_active,            \* event kinds resolved from the selection mask
    produced,              \* per ring buffer: every record produced so far
    cons,                  \* per ring buffer: number of records consumed
    count,                 \* records dispatched by the poll in progress
    dispatched,            \* records handed to event_ctx_callback, in order
    out,                   \* stdout: the lines printed, in order
    errout,                \* stderr: the messages printed, in order
    exit_status,           \* exit status of the process, -1 while it runs
    value,                 \* out_string: the char array behind `value`
    char_signed,           \* out_string: is plain char signed in this build
    idx,                   \* out_string: loop index i; -1 at the call, -2 after it
    text,                  \* out_string: the characters printed so far
    field_size,            \* out_string: declared size of the array behind `value`
    field_len,             \* out_string: number of bytes captured into the array
    nread,                 \* out_string: number of leading bytes of memory read
    buf,                   \* out_argv: the argv array of the event
    scratch_space,         \* out_argv: char scratch_space[buf_size]
    apc,                   \* out_argv: position inside the function
    evt,                   \* event_ctx_callback: the record it is called on
    epc,                   \* event_ctx_callback: position inside the callback
    pending,               \* event_ctx_callback: printf calls still to be made
    written,               \* stdout as the sequence of strings printf calls wrote
    ret                    \* event_ctx_callback: its return value, -1 before

vars == <<pc, cmdline, argv, g_events_env, g_print_features_init,
          g_unbuffer_stdout, g_libbpf_verbose, handler, exiting, err,
          verbose_logging, ctx_state, ctx_mask, ctx_features, ctx_active,
          produced, cons, count, dispatched, out, errout, exit_status,
          value, char_signed, idx, text, field_size, field_len, nread,
          buf, scratch_space, apc, evt, epc, pending, written, ret>>

mainVars == <<pc, cmdline, argv, g_events_env, g_print_features_init,
              g_unbuffer_stdout, g_libbpf_verbose, handler, exiting, err,
              verbose_logging, ctx_state, ctx_mask, ctx_features, ctx_active,
              produced, cons, count, dispatched, out, errout, exit_status>>

stringVars == <<value, char_signed, idx, text, field_size, field_len, nread>>

argvVars == <<buf, scratch_space, apc>>

eventVars == <<evt, epc, pending, written, ret>>

\* the state of the printing functions
printVars == <<stringVars, argvVars, eventVars>>

---------------------------------------------------------------------------
(* Bounds of the model.                                                    *)

\* longest argument vector explored by SpecArgs
MaxArgs == 2

\* most records the kernel side produces in one run
MaxRecords == 2

\* longest string handed to out_string
MaxStrLen == 2

\* largest fixed-capacity char array of an event handed to out_string
MaxFieldSize == 2

\* largest argv array handed to out_argv
MaxBufSize == 3

---------------------------------------------------------------------------
(* Event kinds, option keys and the key -> library bit table.              *)

\* enum cmdline_opts, in declaration order (FILE_DELETE = 0x80, ...)
KindNames ==
    << "FILE_DELETE", "FILE_CREATE", "FILE_RENAME", "PROCESS_FORK",
       "PROCESS_EXEC", "PROCESS_EXIT", "PROCESS_SETSID", "PROCESS_SETUID",
       "PROCESS_SETGID", "PROCESS_TTY_WRITE", "NETWORK_CONNECTION_ATTEMPTED",
       "NETWORK_CONNECTION_ACCEPTED", "NETWORK_CONNECTION_CLOSED" >>

Kinds == {KindNames[i] : i \in 1..Len(KindNames)}

\* FILE_DELETE = 0x80
FILE_DELETE == 128

\* the value of enumerator `name` of enum cmdline_opts
cmdline_opts(name) ==
    FILE_DELETE - 1 + CHOOSE i \in 1..Len(KindNames) : KindNames[i] = name

CMDLINE_MAX == FILE_DELETE + Len(KindNames)

\* UINT64_MAX as a set of bit positions
UINT64_MAX == 0..63

\* EBPF_EVENT_<name>: the bit of each event kind (EbpfEventProto.h of the
\* library: one stable bit position per kind, positions 1..13).
EBPF_EVENT(name) ==
    CASE name = "PROCESS_FORK"                 -> {1}
      [] name = "PROCESS_EXEC"                 -> {2}
      [] name = "PROCESS_EXIT"                 -> {3}
      [] name = "PROCESS_SETSID"               -> {4}
      [] name = "PROCESS_SETUID"               -> {5}
      [] name = "PROCESS_SETGID"               -> {6}
      [] name = "PROCESS_TTY_WRITE"            -> {7}
      [] name = "FILE_DELETE"                  -> {8}
      [] name = "FILE_CREATE"                  -> {9}
      [] name = "FILE_RENAME"                  -> {10}
      [] name = "NETWORK_CONNECTION_ACCEPTED"  -> {11}
      [] name = "NETWORK_CONNECTION_ATTEMPTED" -> {12}
      [] name = "NETWORK_CONNECTION_CLOSED"    -> {13}

\* every bit that is the bit of a defined event kind
DefinedBits == UNION {EBPF_EVENT(k) : k \in Kinds}

\* EBPF_FEATURE_BPF_TRAMP
EBPF_FEATURE_BPF_TRAMP == {0}

\* static uint64_t cmdline_to_lib[CMDLINE_MAX]: [name] = EBPF_EVENT_##name,
\* every other element zero
cmdline_to_lib(key) ==
    IF \E k \in Kinds : cmdline_opts(k) = key
    THEN EBPF_EVENT(CHOOSE k \in Kinds : cmdline_opts(k) = key)
    ELSE {}

\* ARGP_KEY_ARG: the key argp hands over for a positional argument
ARGP_KEY_ARG == 0

\* the keys of the short options 'a', 'i', 'u', 'v' (their ASCII codes)
KEY_a == 97
KEY_i == 105
KEY_u == 117
KEY_v == 118

\* static const struct argp_option opts[]: long name -> key
opts ==
    [ o \in { "all", "file-delete", "file-create", "file-rename",
              "process-fork", "process-exec", "process-exit",
              "process-setsid", "process-setuid", "process-setgid",
              "process-tty-write", "net-conn-accept", "net-conn-attempt",
              "net-conn-closed", "print-features-on-init",
              "unbuffer-stdout", "libbpf-verbose" } |->
        CASE o = "all"                    -> KEY_a
          [] o = "file-delete"            -> cmdline_opts("FILE_DELETE")
          [] o = "file-create"            -> cmdline_opts("FILE_CREATE")
          [] o = "file-rename"            -> cmdline_opts("FILE_RENAME")
          [] o = "process-fork"           -> cmdline_opts("PROCESS_FORK")
          [] o = "process-exec"           -> cmdline_opts("PROCESS_EXEC")
          [] o = "process-exit"           -> cmdline_opts("PROCESS_EXIT")
          [] o = "process-setsid"         -> cmdline_opts("PROCESS_SETSID")
          [] o = "process-setuid"         -> cmdline_opts("PROCESS_SETUID")
          [] o = "process-setgid"         -> cmdline_opts("PROCESS_SETGID")
          [] o = "process-tty-write"      -> cmdline_opts("PROCESS_TTY_WRITE")
          [] o = "net-conn-accept"        -> cmdline_opts("NETWORK_CONNECTION_ACCEPTED")
          [] o = "net-conn-attempt"       -> cmdline_opts("NETWORK_CONNECTION_ATTEMPTED")
          [] o = "net-conn-closed"        -> cmdline_opts("NETWORK_CONNECTION_CLOSED")
          [] o = "print-features-on-init" -> KEY_i
          [] o = "unbuffer-stdout"        -> KEY_u
          [] o = "libbpf-verbose"         -> KEY_v ]

Options == DOMAIN opts

\* a positional argument, which argp hands to the parser as ARGP_KEY_ARG
Positional == "extra"

\* the key argp passes to parse_arg for one element of argv
KeyOf(a) == IF a \in Options THEN opts[a] ELSE ARGP_KEY_ARG

EventKeys == {cmdline_opts(k) : k \in Kinds}

\* a variant of case 'a' that sets the low 32 bits only (UINT32_MAX)
parse_arg_all_Low32(env) == 0..31

\* parse_arg, case 'a': g_events_env = UINT64_MAX
parse_arg_all(env) == UINT64_MAX

\* a variant of the event cases that assigns instead of or-ing
parse_arg_event_Assign(env, key) == cmdline_to_lib(key)

\* parse_arg, the event cases: g_events_env |= cmdline_to_lib[key]
parse_arg_event(env, key) == env \cup cmdline_to_lib(key)

\* parse_arg: the new value of g_events_env
parse_arg_events_env(env, key) ==
    IF key = KEY_a THEN parse_arg_all(env)
    ELSE IF key \in EventKeys THEN parse_arg_event(env, key)
    ELSE env


\* parse_arg: the new value of one of the three option flags
parse_arg_flag(flag, key, mine) == IF key = mine THEN 1 ELSE flag

---------------------------------------------------------------------------
(* errno values and exit statuses used by main() and by the library.       *)

EINTR == 4
EIO == 5
EPERM == 1
ENOMEM == 12
EINVAL == 22

\* argp_usage() ends the process with argp_err_exit_status (EX_USAGE)
EX_USAGE == 64

---------------------------------------------------------------------------
(* Inputs.                                                                 *)

\* the command lines the full program is run with
CommandLines ==
    { << >>,
      << "all", "print-features-on-init" >>,
      << "file-delete", "unbuffer-stdout" >>,
      << "libbpf-verbose", "extra" >> }

\* every argument vector of at most n elements
ArgSeqs(n) ==
    UNION {[1..m -> Options \cup {Positional}] : m \in 0..n}

\* the ring buffers of the context
Rings == {"rb0", "rb1"}

\* the type tags of the records the kernel side writes: two defined kinds
\* and a tag that is the bit of no defined kind
RecordTypes ==
    { EBPF_EVENT("FILE_DELETE"), EBPF_EVENT("PROCESS_EXEC"), {14} }

Live == {"Created", "Running"}

\* number of records produced so far, over all ring buffers
Total == Len(produced["rb0"]) + Len(produced["rb1"])

\* the ring buffers that hold a record not consumed yet
Avail == {rb \in Rings : cons[rb] < Len(produced[rb])}

---------------------------------------------------------------------------
(* Lines of stdout.                                                        *)

Line(l, t, i, b) == [line |-> l, event_type |-> t, id |-> i, bpf_tramp |-> b]

\* sig_int: fprintf(stdout, "Received SIGINT, exiting...\n")
SigintLine == Line("sigint", "", 0, FALSE)

\* a variant of print_init_msg that prints "bpf_tramp": true whatever the
\* feature mask holds
print_init_msg_AlwaysTrue(features) == Line("init", "", 0, TRUE)

\* print_init_msg(features)
print_init_msg(features) ==
    Line("init", "", 0, (features \cap EBPF_FEATURE_BPF_TRAMP) # {})

\* event_ctx_callback: the event_type string printed by the out_* function
\* the switch selects for a header type; "" when no case matches
callback_event_type(type) ==
    CASE type = EBPF_EVENT("PROCESS_FORK")      -> "PROCESS_FORK"
      [] type = EBPF_EVENT("PROCESS_EXEC")      -> "PROCESS_EXEC"
      [] type = EBPF_EVENT("PROCESS_EXIT")      -> "PROCESS_EXIT"
      [] type = EBPF_EVENT("PROCESS_SETSID")    -> "PROCESS_SETSID"
      [] type = EBPF_EVENT("PROCESS_SETUID")    -> "PROCESS_SETUID"
      [] type = EBPF_EVENT("PROCESS_SETGID")    -> "PROCESS_SETGID"
      [] type = EBPF_EVENT("PROCESS_TTY_WRITE") -> "PROCESS_TTY_WRITE"
      [] type = EBPF_EVENT("FILE_DELETE")       -> "FILE_DELETE"
      [] type = EBPF_EVENT("FILE_CREATE")       -> "FILE_CREATE"
      [] type = EBPF_EVENT("FILE_RENAME")       -> "FILE_RENAME"
      [] type = EBPF_EVENT("NETWORK_CONNECTION_ACCEPTED")
                                                -> "NETWORK_CONNECTION_ACCEPTED"
      [] type = EBPF_EVENT("NETWORK_CONNECTION_ATTEMPTED")
                                                -> "NETWORK_CONNECTION_ATTEMPTED"
      [] type = EBPF_EVENT("NETWORK_CONNECTION_CLOSED")
                                                -> "NETWORK_CONNECTION_CLOSED"
      [] OTHER                                  -> ""

\* a variant of the callback whose PROCESS_EXEC case lacks its break and
\* falls through to the PROCESS_EXIT case
event_ctx_callback_Fallthrough(rec) ==
    IF callback_event_type(rec.type) = ""
    THEN << >>
    ELSE IF rec.type = EBPF_EVENT("PROCESS_EXEC")
         THEN << Line("event", "PROCESS_EXEC", rec.id, FALSE),
                 Line("event", "PROCESS_EXIT", rec.id, FALSE) >>
         ELSE << Line("event", callback_event_type(rec.type), rec.id, FALSE) >>

\* event_ctx_callback(evt_hdr): the lines it prints for one record (the switch
\* has no default case: a type no case matches prints nothing); returns 0
event_ctx_callback(rec) ==
    IF callback_event_type(rec.type) = ""
    THEN << >>
    ELSE << Line("event", callback_event_type(rec.type), rec.id, FALSE) >>

---------------------------------------------------------------------------
(* stdout as the printf calls write it: one token per call.  A token holds *)
(* what the call prints: a punctuation mark, or a member with its name,    *)
(* the literal string printed as its value (if any), the field of the      *)
(* event its value is read from (if any) and the number of bytes read from *)
(* that field where the code fixes it.                                      *)

Tok(t, n, v, f, l) == [tok |-> t, name |-> n, val |-> v, field |-> f, len |-> l]

\* sig_int: fprintf(stdout, "Received SIGINT, exiting...\n")
SigintNotice == Tok("sigint", "", "Received SIGINT, exiting...", "", 0)

out_comma == << Tok(",", "", "", "", 0) >>

out_newline == << Tok("nl", "", "", "", 0) >>

out_object_start == << Tok("{", "", "", "", 0) >>

out_object_end == << Tok("}", "", "", "", 0) >>

\* printf("\"%s\":", name)
out_key(name) == << Tok("key", name, "", "", 0) >>

out_event_type(type) == << Tok("member", "event_type", type, "", 0) >>

out_uint(name, field) == << Tok("member", name, "", field, 0) >>

out_int(name, field) == << Tok("member", name, "", field, 0) >>

out_bool(name, field) == << Tok("member", name, "", field, 0) >>

\* out_string(name, value) for a string literal
out_string_literal(name, lit) == << Tok("member", name, lit, "", 0) >>

\* out_string(name, value) for a char array of the event
out_string(name, field) == << Tok("member", name, "", field, 0) >>

out_tty_dev(name) ==
    out_key(name) \o out_object_start
    \o out_int("major", "major") \o out_comma
    \o out_int("minor", "minor") \o out_comma
    \o out_int("winsize_rows", "winsize.rows") \o out_comma
    \o out_int("winsize_cols", "winsize.cols") \o out_comma
    \o out_bool("ECHO", "termios.c_lflag")
    \o out_object_end

out_pid_info(name) ==
    out_key(name) \o out_object_start
    \o out_int("tid", "tid") \o out_comma
    \o out_int("tgid", "tgid") \o out_comma
    \o out_int("ppid", "ppid") \o out_comma
    \o out_int("pgid", "pgid") \o out_comma
    \o out_int("sid", "sid") \o out_comma
    \o out_uint("start_time_ns", "start_time_ns")
    \o out_object_end

out_cred_info(name) ==
    out_key(name) \o out_object_start
    \o out_int("ruid", "ruid") \o out_comma
    \o out_int("rgid", "rgid") \o out_comma
    \o out_int("euid", "euid") \o out_comma
    \o out_int("egid", "egid") \o out_comma
    \o out_int("suid", "suid") \o out_comma
    \o out_int("sgid", "sgid")
    \o out_object_end

\* out_argv(name, buf, buf_size): members printed; the rewriting of the
\* buffer is modelled by the steps of out_argv further down
out_argv(name, field) == << Tok("member", name, "", field, 0) >>

out_file_delete(e) ==
    out_object_start \o out_event_type("FILE_DELETE") \o out_comma
    \o out_pid_info("pids") \o out_comma
    \o out_string("path", "path") \o out_comma
    \o out_int("mount_namespace", "mntns") \o out_comma
    \o out_string("comm", "comm")
    \o out_object_end \o out_newline

out_file_create(e) ==
    out_object_start \o out_event_type("FILE_CREATE") \o out_comma
    \o out_pid_info("pids") \o out_comma
    \o out_string("path", "path") \o out_comma
    \o out_int("mount_namespace", "mntns") \o out_comma
    \o out_string("comm", "comm")
    \o out_object_end \o out_newline

out_file_rename(e) ==
    out_object_start \o out_event_type("FILE_RENAME") \o out_comma
    \o out_pid_info("pids") \o out_comma
    \o out_string("old_path", "old_path") \o out_comma
    \o out_string("new_path", "new_path") \o out_comma
    \o out_int("mount_namespace", "mntns") \o out_comma
    \o out_string("comm", "comm")
    \o out_object_end \o out_newline

out_process_fork(e) ==
    out_object_start \o out_event_type("PROCESS_FORK") \o out_comma
    \o out_pid_info("parent_pids") \o out_comma
    \o out_pid_info("child_pids") \o out_comma
    \o out_string("pids_ss_cgroup_path", "pids_ss_cgroup_path")
    \o out_object_end \o out_newline

out_process_exec(e) ==
    out_object_start \o out_event_type("PROCESS_EXEC") \o out_comma
    \o out_pid_info("pids") \o out_comma
    \o out_cred_info("creds") \o out_comma
    \o out_tty_dev("ctty") \o out_comma
    \o out_string("filename", "filename") \o out_comma
    \o out_string("cwd", "cwd") \o out_comma
    \o out_string("pids_ss_cgroup_path", "pids_ss_cgroup_path") \o out_comma
    \o out_argv("argv", "argv")
    \o out_object_end \o out_newline

out_process_setsid(e) ==
    out_object_start \o out_event_type("PROCESS_SETSID") \o out_comma
    \o out_pid_info("pids")
    \o out_object_end \o out_newline

out_process_setuid(e) ==
    out_object_start \o out_event_type("PROCESS_SETUID") \o out_comma
    \o out_pid_info("pids") \o out_comma
    \o out_uint("new_ruid", "new_ruid") \o out_comma
    \o out_uint("new_euid", "new_euid")
    \o out_object_end \o out_newline

out_process_setgid(e) ==
    out_object_start \o out_event_type("PROCESS_SETGID") \o out_comma
    \o out_pid_info("pids") \o out_comma
    \o out_uint("new_rgid", "new_rgid") \o out_comma
    \o out_uint("new_egid", "new_egid")
    \o out_object_end \o out_newline

out_process_tty_write(e) ==
    out_object_start \o out_event_type("PROCESS_TTY_WRITE") \o out_comma
    \o out_pid_info("pids") \o out_comma
    \o out_uint("tty_out_len", "tty_out_len") \o out_comma
    \o out_uint("tty_out_truncated", "tty_out_truncated") \o out_comma
    \o out_tty_dev("tty") \o out_comma
    \o out_string("tty_out", "tty_out") \o out_comma
    \o out_string("comm", "comm")
    \o out_object_end \o out_newline

out_process_exit(e) ==
    out_object_start \o out_event_type("PROCESS_EXIT") \o out_comma
    \o out_pid_info("pids") \o out_comma
    \o out_string("pids_ss_cgroup_path", "pids_ss_cgroup_path") \o out_comma
    \o out_int("exit_code", "exit_code")
    \o out_object_end \o out_newline

\* enum ebpf_net_info_transport and enum ebpf_net_info_af of the library
EBPF_NETWORK_EVENT_TRANSPORT_TCP == 1
EBPF_NETWORK_EVENT_AF_INET == 1
EBPF_NETWORK_EVENT_AF_INET6 == 2

\* INET_ADDRSTRLEN / INET6_ADDRSTRLEN aside, inet_ntop reads 4 bytes of an
\* AF_INET address and 16 bytes of an AF_INET6 address
IN_ADDR_LEN == 4
IN6_ADDR_LEN == 16

\* inet_ntop(AF_INET, addr, buf, sizeof(buf)); printf(...)
out_ip_addr(name, field) == << Tok("member", name, "", field, IN_ADDR_LEN) >>

\* a variant of out_ip6_addr that is handed the IPv4 source address field
out_ip6_addr_ReadsV4(name, field) ==
    << Tok("member", name, "", "saddr", IN6_ADDR_LEN) >>

\* inet_ntop(AF_INET6, addr, buf, sizeof(buf)); printf(...)
out_ip6_addr(name, field) == << Tok("member", name, "", field, IN6_ADDR_LEN) >>

\* switch (net->transport): only TCP has a case
out_net_info_transport(e) ==
    IF e.transport = EBPF_NETWORK_EVENT_TRANSPORT_TCP
    THEN out_string_literal("transport", "TCP") \o out_comma
    ELSE << >>

\* switch (net->family): AF_INET and AF_INET6 have a case
out_net_info_family(e) ==
    CASE e.family = EBPF_NETWORK_EVENT_AF_INET ->
             out_string_literal("family", "AF_INET") \o out_comma
             \o out_ip_addr("source_address", "saddr") \o out_comma
             \o out_int("source_port", "sport") \o out_comma
             \o out_ip_addr("destination_address", "daddr") \o out_comma
             \o out_int("destination_port", "dport")
      [] e.family = EBPF_NETWORK_EVENT_AF_INET6 ->
             out_string_literal("family", "AF_INET6") \o out_comma
             \o out_ip6_addr("source_address", "saddr6") \o out_comma
             \o out_int("source_port", "sport") \o out_comma
             \o out_ip6_addr("destination_address", "daddr6") \o out_comma
             \o out_int("destination_port", "dport")
      [] OTHER -> << >>

\* switch (evt->hdr.type): only NETWORK_CONNECTION_CLOSED has a case
out_net_info_close(e) ==
    IF e.type = EBPF_EVENT("NETWORK_CONNECTION_CLOSED")
    THEN out_comma \o out_uint("bytes_sent", "tcp.close.bytes_sent")
         \o out_comma \o out_uint("bytes_received", "tcp.close.bytes_received")
    ELSE << >>

out_net_info(name, e) ==
    out_key(name) \o out_object_start
    \o out_net_info_transport(e)
    \o out_net_info_family(e)
    \o out_comma \o out_int("network_namespace", "netns")
    \o out_net_info_close(e)
    \o out_object_end

out_network_event(name, e) ==
    out_object_start \o out_event_type(name) \o out_comma
    \o out_pid_info("pids") \o out_comma
    \o out_net_info("net", e) \o out_comma
    \o out_string("comm", "comm")
    \o out_object_end \o out_newline

\* a variant of out_network_connection_accepted_event that passes the name
\* of the attempted event
out_network_connection_accepted_event_Attempted(e) ==
    out_network_event("NETWORK_CONNECTION_ATTEMPTED", e)

out_network_connection_accepted_event(e) ==
    out_network_event("NETWORK_CONNECTION_ACCEPTED", e)

out_network_connection_attempted_event(e) ==
    out_network_event("NETWORK_CONNECTION_ATTEMPTED", e)

out_network_connection_closed_event(e) ==
    out_network_event("NETWORK_CONNECTION_CLOSED", e)

\* event_ctx_callback: switch (evt_hdr->type), the printf calls of the out_*
\* function of the matching case; none when no case matches
callback_switch(e) ==
    CASE e.type = EBPF_EVENT("PROCESS_FORK")      -> out_process_fork(e)
      [] e.type = EBPF_EVENT("PROCESS_EXEC")      -> out_process_exec(e)
      [] e.type = EBPF_EVENT("PROCESS_EXIT")      -> out_process_exit(e)
      [] e.type = EBPF_EVENT("PROCESS_SETSID")    -> out_process_setsid(e)
      [] e.type = EBPF_EVENT("PROCESS_SETUID")    -> out_process_setuid(e)
      [] e.type = EBPF_EVENT("PROCESS_SETGID")    -> out_process_setgid(e)
      [] e.type = EBPF_EVENT("PROCESS_TTY_WRITE") -> out_process_tty_write(e)
      [] e.type = EBPF_EVENT("FILE_DELETE")       -> out_file_delete(e)
      [] e.type = EBPF_EVENT("FILE_CREATE")       -> out_file_create(e)
      [] e.type = EBPF_EVENT("FILE_RENAME")       -> out_file_rename(e)
      [] e.type = EBPF_EVENT("NETWORK_CONNECTION_ACCEPTED") ->
             out_network_connection_accepted_event(e)
      [] e.type = EBPF_EVENT("NETWORK_CONNECTION_ATTEMPTED") ->
             out_network_connection_attempted_event(e)
      [] e.type = EBPF_EVENT("NETWORK_CONNECTION_CLOSED") ->
             out_network_connection_closed_event(e)
      [] OTHER -> << >>

\* a record handed to the callback: its header type, the transport and
\* family of its net info (0 for a record of another kind) and whether its
\* variable-length fields were captured up to their capacity
Event(t, tr, fa, fu) == [type |-> t, transport |-> tr, family |-> fa, full |-> fu]

\* no record
NoEvent == Event({}, 0, 0, FALSE)

---------------------------------------------------------------------------
(* The control flow of main().                                             *)

\* a variant of main() that does not check the result of construction
AfterCtxNew_Unchecked(e) == "init_msg"

\* if (err < 0) { ...; goto out; } after ebpf_event_ctx__new
AfterCtxNew(e) == IF e < 0 THEN "out" ELSE "init_msg"

\* a variant of main() that always asks for every event
CtxNewMask_All == UINT64_MAX

\* the third argument of ebpf_event_ctx__new
CtxNewMask == g_events_env

\* a variant of the loop that does not look at exiting: while (1)
LoopCond_Forever(ex) == "poll"

\* while (!exiting)
LoopCond(ex) == IF ex = 0 THEN "poll" ELSE "destroy"

\* a variant of the check that takes every negative result as fatal
PollFatal_AnyNegative(e) == e < 0

\* if (err < 0 && err != -EINTR)
PollFatal(e) == e < 0 /\ e # -EINTR

\* ...  break;  or the next iteration
AfterPoll(e) == IF PollFatal(e) THEN "destroy" ELSE "loop"

\* a variant of main() that destroys the context inside the loop
AfterDestroy_Loop == "loop"

\* after ebpf_event_ctx__destroy(&ctx): falls through to out
AfterDestroy == "out"

\* return err != 0
ExitStatus(e) == IF e # 0 THEN 1 ELSE 0

---------------------------------------------------------------------------
(* The library, modelled from the specification of the engine.             *)

\* resolve(selection_mask): the kinds whose bit is set
resolve(mask) == {k \in Kinds : EBPF_EVENT(k) \subseteq mask}

\* the results construction can have for a mask: a mask with a bit outside
\* the defined positions is an InvalidSelection unless it is the all-bits-set
\* value; otherwise construction succeeds or an attach fails
CtxNewResults(mask) ==
    IF ~(mask \subseteq DefinedBits) /\ mask # UINT64_MAX
    THEN {-EINVAL}
    ELSE {0, -EPERM}

\* detect_features(): the feature masks an environment can yield
FeatureMasks == {{}, EBPF_FEATURE_BPF_TRAMP}

\* a record is dispatched only when its kind bit is in the selection mask
Selected(type, mask) == type # {} /\ type \subseteq mask


---------------------------------------------------------------------------
(* Initial states.                                                         *)

\* the state of the string printer while main() runs
StringIdle ==
    /\ value = << 0 >>
    /\ char_signed = TRUE
    /\ idx = -1
    /\ text = << >>
    /\ field_size = 1
    /\ field_len = 0
    /\ nread = 0

\* the state of out_argv while it is not running
ArgvIdle ==
    /\ buf = << 0 >>
    /\ scratch_space = << >>
    /\ apc = "idle"

\* the state of the callback while it is not running
EventIdle ==
    /\ evt = NoEvent
    /\ epc = "idle"
    /\ pending = << >>
    /\ written = << >>
    /\ ret = -1

\* the program at the entry of main(), started with the arguments `args`
MainInit(args) ==
    /\ pc = "signal"
    /\ cmdline = args
    /\ argv = args
    /\ g_events_env = {}
    /\ g_print_features_init = 0
    /\ g_unbuffer_stdout = 0
    /\ g_libbpf_verbose = 0
    /\ handler = FALSE
    /\ exiting = 0
    /\ err = 0
    /\ verbose_logging = FALSE
    /\ ctx_state = "None"
    /\ ctx_mask = {}
    /\ ctx_features = {}
    /\ ctx_active = {}
    /\ produced = [rb \in Rings |-> << >>]
    /\ cons = [rb \in Rings |-> 0]
    /\ count = 0
    /\ dispatched = << >>
    /\ out = << >>
    /\ errout = << >>
    /\ exit_status = -1

Init ==
    /\ \E args \in CommandLines : MainInit(args)
    /\ StringIdle
    /\ ArgvIdle
    /\ EventIdle

---------------------------------------------------------------------------
(* main(), step by step.                                                   *)

\* if (signal(SIGINT, sig_int) == SIG_ERR) { fprintf(stderr, ...); goto out; }
RegisterSigint ==
    /\ pc = "signal"
    /\ \E ok \in BOOLEAN :
          /\ handler' = ok
          /\ pc' = IF ok THEN "argp" ELSE "out"
          /\ errout' = IF ok THEN errout
                       ELSE Append(errout, "Failed to register SIGINT handler")
    /\ UNCHANGED <<cmdline, argv, g_events_env, g_print_features_init,
                   g_unbuffer_stdout, g_libbpf_verbose, exiting, err,
                   verbose_logging, ctx_state, ctx_mask, ctx_features,
                   ctx_active, produced, cons, count, dispatched, out,
                   exit_status>>
    /\ UNCHANGED printVars

\* argp_parse hands the next element of argv to parse_arg; a positional
\* argument reaches case ARGP_KEY_ARG, where argp_usage() ends the process
ParseArg ==
    /\ pc = "argp"
    /\ argv # << >>
    /\ LET key == KeyOf(Head(argv)) IN
          IF key = ARGP_KEY_ARG
          THEN /\ pc' = "exited"
               /\ exit_status' = EX_USAGE
               /\ errout' = Append(errout, "usage")
               /\ UNCHANGED <<argv, g_events_env, g_print_features_init,
                              g_unbuffer_stdout, g_libbpf_verbose>>
          ELSE /\ g_events_env' = parse_arg_events_env(g_events_env, key)
               /\ g_print_features_init' =
                      parse_arg_flag(g_print_features_init, key, KEY_i)
               /\ g_unbuffer_stdout' =
                      parse_arg_flag(g_unbuffer_stdout, key, KEY_u)
               /\ g_libbpf_verbose' =
                      parse_arg_flag(g_libbpf_verbose, key, KEY_v)
               /\ argv' = Tail(argv)
               /\ UNCHANGED <<pc, exit_status, errout>>
    /\ UNCHANGED <<cmdline, handler, exiting, err, verbose_logging, ctx_state,
                   ctx_mask, ctx_features, ctx_active, produced, cons, count,
                   dispatched, out>>
    /\ UNCHANGED printVars

\* err = argp_parse(...) returns 0 once every argument is parsed
ArgpDone ==
    /\ pc = "argp"
    /\ argv = << >>
    /\ err' = 0
    /\ pc' = "setvbuf"
    /\ UNCHANGED <<cmdline, argv, g_events_env, g_print_features_init,
                   g_unbuffer_stdout, g_libbpf_verbose, handler, exiting,
                   verbose_logging, ctx_state, ctx_mask, ctx_features,
                   ctx_active, produced, cons, count, dispatched, out, errout,
                   exit_status>>
    /\ UNCHANGED printVars

\* err = argp_parse(...) fails (out of memory);  if (err) goto out;
ArgpFail ==
    /\ pc = "argp"
    /\ argv = cmdline
    /\ err' = ENOMEM
    /\ pc' = "out"
    /\ UNCHANGED <<cmdline, argv, g_events_env, g_print_features_init,
                   g_unbuffer_stdout, g_libbpf_verbose, handler, exiting,
                   verbose_logging, ctx_state, ctx_mask, ctx_features,
                   ctx_active, produced, cons, count, dispatched, out, errout,
                   exit_status>>
    /\ UNCHANGED printVars

\* if (g_unbuffer_stdout) { err = setvbuf(...); if (err < 0) {...; goto out;} }
Setvbuf ==
    /\ pc = "setvbuf"
    /\ \E r \in (IF g_unbuffer_stdout # 0 THEN {0, -1} ELSE {err}) :
          /\ err' = r
          /\ pc' = IF g_unbuffer_stdout # 0 /\ r < 0 THEN "out" ELSE "verbose"
          /\ errout' = IF g_unbuffer_stdout # 0 /\ r < 0
                       THEN Append(errout, "Could not turn off stdout buffering")
                       ELSE errout
    /\ UNCHANGED <<cmdline, argv, g_events_env, g_print_features_init,
                   g_unbuffer_stdout, g_libbpf_verbose, handler, exiting,
                   verbose_logging, ctx_state, ctx_mask, ctx_features,
                   ctx_active, produced, cons, count, dispatched, out,
                   exit_status>>
    /\ UNCHANGED printVars

\* if (g_libbpf_verbose) ebpf_set_verbose_logging();
Verbose ==
    /\ pc = "verbose"
    /\ verbose_logging' = (g_libbpf_verbose # 0)
    /\ pc' = "ctx_new"
    /\ UNCHANGED <<cmdline, argv, g_events_env, g_print_features_init,
                   g_unbuffer_stdout, g_libbpf_verbose, handler, exiting, err,
                   ctx_state, ctx_mask, ctx_features, ctx_active, produced,
                   cons, count, dispatched, out, errout, exit_status>>
    /\ UNCHANGED printVars

\* err = ebpf_event_ctx__new(&ctx, event_ctx_callback, g_events_env);
\* if (err < 0) { fprintf(stderr, ...); goto out; }
CtxNew ==
    /\ pc = "ctx_new"
    /\ \E r \in CtxNewResults(CtxNewMask) :
          /\ err' = r
          /\ pc' = AfterCtxNew(r)
          /\ errout' = IF r < 0
                       THEN Append(errout, "Could not create event context")
                       ELSE errout
          /\ IF r = 0
             THEN /\ ctx_state' = "Created"
                  /\ ctx_mask' = CtxNewMask
                  /\ ctx_active' = resolve(CtxNewMask)
                  /\ ctx_features' \in FeatureMasks
             ELSE UNCHANGED <<ctx_state, ctx_mask, ctx_active, ctx_features>>
    /\ UNCHANGED <<cmdline, argv, g_events_env, g_print_features_init,
                   g_unbuffer_stdout, g_libbpf_verbose, handler, exiting,
                   verbose_logging, produced, cons, count, dispatched, out,
                   exit_status>>
    /\ UNCHANGED printVars

\* if (g_print_features_init) print_init_msg(ebpf_event_ctx__get_features(ctx));
InitMsg ==
    /\ pc = "init_msg"
    /\ out' = IF g_print_features_init # 0
              THEN Append(out, print_init_msg(ctx_features))
              ELSE out
    /\ pc' = "loop"
    /\ UNCHANGED <<cmdline, argv, g_events_env, g_print_features_init,
                   g_unbuffer_stdout, g_libbpf_verbose, handler, exiting, err,
                   verbose_logging, ctx_state, ctx_mask, ctx_features,
                   ctx_active, produced, cons, count, dispatched, errout,
                   exit_status>>
    /\ UNCHANGED printVars

\* while (!exiting)
LoopTest ==
    /\ pc = "loop"
    /\ pc' = LoopCond(exiting)
    /\ UNCHANGED <<cmdline, argv, g_events_env, g_print_features_init,
                   g_unbuffer_stdout, g_libbpf_verbose, handler, exiting, err,
                   verbose_logging, ctx_state, ctx_mask, ctx_features,
                   ctx_active, produced, cons, count, dispatched, out, errout,
                   exit_status>>
    /\ UNCHANGED printVars


\* what every step of ebpf_event_ctx__next leaves alone
PollFrame ==
    /\ UNCHANGED <<cmdline, argv, g_events_env, g_print_features_init,
                   g_unbuffer_stdout, g_libbpf_verbose, handler, exiting,
                   verbose_logging, ctx_mask, ctx_features, ctx_active,
                   produced, errout, exit_status>>
    /\ UNCHANGED printVars

\* the engine runs from the first poll on
Polled(st) == IF st = "Created" THEN "Running" ELSE st

\* err = ebpf_event_ctx__next(ctx, 10): records are available, the poll
\* starts to drain them
PollRecords ==
    /\ pc = "poll"
    /\ Avail # {}
    /\ ctx_state' = Polled(ctx_state)
    /\ count' = 0
    /\ pc' = "drain"
    /\ UNCHANGED <<err, cons, dispatched, out>>
    /\ PollFrame

\* err = ebpf_event_ctx__next(ctx, 10): the timeout passes with no record
PollTimeout ==
    /\ pc = "poll"
    /\ Avail = {}
    /\ ctx_state' = Polled(ctx_state)
    /\ err' = 0
    /\ pc' = "polled"
    /\ UNCHANGED <<count, cons, dispatched, out>>
    /\ PollFrame

\* err = ebpf_event_ctx__next(ctx, 10): a signal interrupts the wait
PollInterrupted ==
    /\ pc = "poll"
    /\ ctx_state' = Polled(ctx_state)
    /\ err' = -EINTR
    /\ pc' = "polled"
    /\ UNCHANGED <<count, cons, dispatched, out>>
    /\ PollFrame

\* err = ebpf_event_ctx__next(ctx, 10): the wait fails
PollIoError ==
    /\ pc = "poll"
    /\ ctx_state' = Polled(ctx_state)
    /\ err' = -EIO
    /\ pc' = "polled"
    /\ UNCHANGED <<count, cons, dispatched, out>>
    /\ PollFrame

\* the poll consumes the next record of a ring buffer and, when its kind is
\* selected, calls event_ctx_callback on it
DrainOne ==
    /\ pc = "drain"
    /\ \E rb \in Avail :
          LET rec == produced[rb][cons[rb] + 1] IN
          /\ cons' = [cons EXCEPT ![rb] = @ + 1]
          /\ IF Selected(rec.type, ctx_mask)
             THEN /\ dispatched' = Append(dispatched, rec)
                  /\ out' = out \o event_ctx_callback(rec)
                  /\ count' = count + 1
             ELSE UNCHANGED <<dispatched, out, count>>
    /\ UNCHANGED <<pc, err, ctx_state>>
    /\ PollFrame

\* every ring buffer is drained: the poll returns the number of records
\* it dispatched (its counter ends with the call)
PollReturn ==
    /\ pc = "drain"
    /\ Avail = {}
    /\ err' = count
    /\ count' = 0
    /\ pc' = "polled"
    /\ UNCHANGED <<cons, dispatched, out, ctx_state>>
    /\ PollFrame

\* if (err < 0 && err != -EINTR) { fprintf(stderr, ...); break; }
PollCheck ==
    /\ pc = "polled"
    /\ pc' = AfterPoll(err)
    /\ errout' = IF PollFatal(err)
                 THEN Append(errout, "Failed to poll event context")
                 ELSE errout
    /\ UNCHANGED <<cmdline, argv, g_events_env, g_print_features_init,
                   g_unbuffer_stdout, g_libbpf_verbose, handler, exiting, err,
                   verbose_logging, ctx_state, ctx_mask, ctx_features,
                   ctx_active, produced, cons, count, dispatched, out,
                   exit_status>>
    /\ UNCHANGED printVars

\* ebpf_event_ctx__destroy(&ctx)
Destroy ==
    /\ pc = "destroy"
    /\ ctx_state' = IF ctx_state \in Live THEN "Destroyed" ELSE ctx_state
    /\ pc' = AfterDestroy
    /\ UNCHANGED <<cmdline, argv, g_events_env, g_print_features_init,
                   g_unbuffer_stdout, g_libbpf_verbose, handler, exiting, err,
                   verbose_logging, ctx_mask, ctx_features, ctx_active,
                   produced, cons, count, dispatched, out, errout,
                   exit_status>>
    /\ UNCHANGED printVars

\* out: return err != 0;
Return ==
    /\ pc = "out"
    /\ exit_status' = ExitStatus(err)
    /\ pc' = "exited"
    /\ UNCHANGED <<cmdline, argv, g_events_env, g_print_features_init,
                   g_unbuffer_stdout, g_libbpf_verbose, handler, exiting, err,
                   verbose_logging, ctx_state, ctx_mask, ctx_features,
                   ctx_active, produced, cons, count, dispatched, out, errout>>
    /\ UNCHANGED printVars

---------------------------------------------------------------------------
(* The signal handler and the kernel side.                                 *)

\* sig_int(signo), run whenever SIGINT is delivered to the process
SigInt ==
    /\ handler
    /\ pc # "exited"
    /\ IF exiting # 0
       THEN UNCHANGED <<exiting, out, written>>
       ELSE /\ exiting' = 1
            /\ out' = Append(out, SigintLine)
            /\ written' = Append(written, SigintNotice)
    /\ UNCHANGED <<pc, cmdline, argv, g_events_env, g_print_features_init,
                   g_unbuffer_stdout, g_libbpf_verbose, handler, err,
                   verbose_logging, ctx_state, ctx_mask, ctx_features,
                   ctx_active, produced, cons, count, dispatched, errout,
                   exit_status>>
    /\ UNCHANGED <<stringVars, argvVars, evt, epc, pending, ret>>

\* a probe attached to the live context writes a record to a ring buffer
Produce ==
    /\ ctx_state \in Live
    /\ Total < MaxRecords
    /\ \E rb \in Rings, t \in RecordTypes :
          produced' = [produced EXCEPT
                          ![rb] = Append(@, [id |-> Total + 1, type |-> t, rb |-> rb])]
    /\ UNCHANGED <<pc, cmdline, argv, g_events_env, g_print_features_init,
                   g_unbuffer_stdout, g_libbpf_verbose, handler, exiting, err,
                   verbose_logging, ctx_state, ctx_mask, ctx_features,
                   ctx_active, cons, count, dispatched, out, errout,
                   exit_status>>
    /\ UNCHANGED printVars

---------------------------------------------------------------------------
(* The program.                                                            *)

\* the steps of the main thread up to context construction
Startup ==
    \/ RegisterSigint
    \/ ParseArg
    \/ ArgpDone
    \/ ArgpFail
    \/ Setvbuf
    \/ Verbose
    \/ CtxNew

\* the steps of the main thread
MainStep ==
    \/ Startup
    \/ InitMsg
    \/ LoopTest
    \/ PollRecords
    \/ PollTimeout
    \/ PollInterrupted
    \/ PollIoError
    \/ DrainOne
    \/ PollReturn
    \/ PollCheck
    \/ Destroy
    \/ Return

Next ==
    \/ MainStep
    \/ SigInt
    \/ Produce

Spec == Init /\ [][Next]_vars

\* the main thread always goes on: every call it makes returns (poll within
\* its timeout); signals and records come whenever they come
FairSpec == Spec /\ WF_vars(MainStep)


\* the start of the program over every argument vector of at most MaxArgs
\* elements, up to context construction
ArgsInit ==
    /\ \E args \in ArgSeqs(MaxArgs) : MainInit(args)
    /\ StringIdle
    /\ ArgvIdle
    /\ EventIdle

ArgsNext == Startup

SpecArgs == ArgsInit /\ [][ArgsNext]_vars

---------------------------------------------------------------------------
(* out_string(name, value).                                                *)

\* the bytes tried in strings: NUL, the six bytes with a short escape, other
\* control bytes, printable bytes, DEL and bytes >= 0x80
SampleBytes == {0, 8, 9, 10, 13, 34, 92, 1, 31, 32, 65, 126, 127, 128, 255}

\* every byte sequence of at most n elements
ByteSeqs(n) == UNION {[1..m -> SampleBytes] : m \in 0..n}

\* the characters of the member name printed in front of the string ("path")
NameChars == << 112, 97, 116, 104 >>

\* strlen(value): the index of the first NUL of the array
strlen(a) == (CHOOSE i \in 1..Len(a) : a[i] = 0 /\ \A j \in 1..(i - 1) : a[j] # 0) - 1

\* the number of bytes strlen(value) reads: every byte up to and including
\* the first NUL
strlen_reads(a) == strlen(a) + 1

\* char c = value[i]: the byte as a plain char of this build
AsChar(b, signed) == IF signed /\ b >= 128 THEN b - 256 ELSE b

\* isascii(c)
isascii(c) == c >= 0 /\ c <= 127

\* iscntrl(c), for c a 7-bit character
iscntrl(c) == (c >= 0 /\ c <= 31) \/ c = 127

\* the character of one hexadecimal digit, as %x prints it
HexChar(d) == IF d < 10 THEN 48 + d ELSE 87 + d

RECURSIVE Pow16(_)
\* 16 to the power k
Pow16(k) == IF k = 0 THEN 1 ELSE 16 * Pow16(k - 1)

\* hexadecimal digit k (0 the lowest) of the int c read as an unsigned int
HexDigit(c, k) == (c \div Pow16(k)) % 16

\* the number of hexadecimal digits %02x prints for c: those up to the
\* highest non-zero one, and at least two
HexWidth(c) ==
    IF \E k \in 2..7 : HexDigit(c, k) # 0
    THEN 1 + CHOOSE k \in 2..7 :
                 HexDigit(c, k) # 0 /\ \A j \in (k + 1)..7 : HexDigit(c, j) = 0
    ELSE 2

\* printf("\\x%02x", c): c is promoted to int and printed as an unsigned int
printf_x02x(c) ==
    << 92, 120 >> \o [n \in 1..HexWidth(c) |-> HexChar(HexDigit(c, HexWidth(c) - n))]

\* printf("%c", c)
printf_c(c) == << c % 256 >>

\* the default case of the switch
out_string_default(c) ==
    IF ~isascii(c) \/ iscntrl(c) THEN printf_x02x(c) ELSE printf_c(c)

\* the body of the loop of out_string for one character: switch (c)
out_string_char(c) ==
    CASE c = 10 -> << 92, 110 >>
      [] c = 13 -> << 92, 114 >>
      [] c = 92 -> << 92, 92 >>
      [] c = 34 -> << 92, 34 >>
      [] c = 9  -> << 92, 116 >>
      [] c = 8  -> << 92, 98 >>
      [] OTHER  -> out_string_default(c)

\* printf("\"%s\":\"", name)
OutStringBegin ==
    /\ idx = -1
    /\ text' = << 34 >> \o NameChars \o << 34, 58, 34 >>
    /\ idx' = 0
    /\ UNCHANGED <<value, char_signed, field_size, field_len, nread>>
    /\ UNCHANGED <<mainVars, argvVars, eventVars>>

\* one iteration of  for (size_t i = 0; i < strlen(value); i++)
OutStringChar ==
    /\ idx >= 0
    /\ idx < strlen(value)
    /\ text' = text \o out_string_char(AsChar(value[idx + 1], char_signed))
    /\ idx' = idx + 1
    /\ nread' = strlen_reads(value)
    /\ UNCHANGED <<value, char_signed, field_size, field_len>>
    /\ UNCHANGED <<mainVars, argvVars, eventVars>>

\* the loop ends;  printf("\"");  idx = -2: out_string has returned
OutStringEnd ==
    /\ idx >= 0
    /\ ~(idx < strlen(value))
    /\ text' = Append(text, 34)
    /\ idx' = -2
    /\ nread' = strlen_reads(value)
    /\ UNCHANGED <<value, char_signed, field_size, field_len>>
    /\ UNCHANGED <<mainVars, argvVars, eventVars>>

\* out_string called on every NUL-terminated array of at most MaxStrLen
\* bytes, in a build with signed and in a build with unsigned plain char
StringInit ==
    /\ MainInit(<< >>)
    /\ \E s \in ByteSeqs(MaxStrLen) :
          /\ value = Append(s, 0)
          /\ field_size = Len(s) + 1
          /\ field_len = Len(s)
    /\ char_signed \in BOOLEAN
    /\ idx = -1
    /\ text = << >>
    /\ nread = 0
    /\ ArgvIdle
    /\ EventIdle

StringNext ==
    \/ OutStringBegin
    \/ OutStringChar
    \/ OutStringEnd

SpecString == StringInit /\ [][StringNext]_vars

---------------------------------------------------------------------------
(* out_string on a fixed-capacity char array of an event record.           *)

\* the bytes tried in a field: NUL, a byte with a short escape, a letter
FieldBytes == {0, 10, 65}

\* what lies in memory behind the array, up to the first NUL byte there
AfterField == { << 0 >>, << 65, 0 >> }

\* n zero bytes
Zeros(n) == [i \in 1..n |-> 0]

\* out_string called on an array of field_size bytes (path, comm, tty_out,
\* ...) into which the kernel side captured field_len bytes, the rest of the
\* array being zero; `value` is the memory from the start of the array on
FieldInit ==
    /\ MainInit(<< >>)
    /\ \E size \in 1..MaxFieldSize :
       \E n \in 0..size :
       \E captured \in [1..n -> FieldBytes] :
       \E after \in AfterField :
          /\ value = captured \o Zeros(size - n) \o after
          /\ field_size = size
          /\ field_len = n
    /\ char_signed \in BOOLEAN
    /\ idx = -1
    /\ text = << >>
    /\ nread = 0
    /\ ArgvIdle
    /\ EventIdle

SpecField == FieldInit /\ [][StringNext]_vars

\* evt->tty_out_len of a tty-write record whose tty_out is the array
tty_out_len == field_len

\* evt->tty_out_truncated: set when the captured length equals the capacity
tty_out_truncated == IF field_len = field_size THEN 1 ELSE 0

---------------------------------------------------------------------------
(* out_argv(name, buf, buf_size).                                          *)

\* the bytes tried in an argv array: NUL, space and two letters
ArgvBytes == {0, 32, 97, 98}

\* size_t buf_size
buf_size == Len(buf)

\* for (i = 0; i < buf_size; i++) if (scratch_space[i] == '\0') scratch_space[i] = ' ';
out_argv_spaces(s) == [i \in 1..Len(s) |-> IF s[i] = 0 THEN 32 ELSE s[i]]

\* the index at which the second loop stops: the highest i <= buf_size - 2
\* with scratch_space[i] != ' ', or -1 when the loop runs to its end
out_argv_last(s) ==
    IF \E i \in 0..(Len(s) - 2) : s[i + 1] # 32
    THEN CHOOSE i \in 0..(Len(s) - 2) :
             s[i + 1] # 32 /\ \A j \in (i + 1)..(Len(s) - 2) : s[j + 1] = 32
    ELSE -1

\* for (i = buf_size - 2; i >= 0; i--)
\*     if (scratch_space[i] != ' ') { scratch_space[i + 1] = '\0'; break; }
out_argv_trim(s) ==
    IF out_argv_last(s) >= 0
    THEN [s EXCEPT ![out_argv_last(s) + 2] = 0]
    ELSE s

\* char scratch_space[buf_size];  memcpy(scratch_space, buf, buf_size);
OutArgvCopy ==
    /\ apc = "call"
    /\ scratch_space' = buf
    /\ apc' = "spaces"
    /\ UNCHANGED buf
    /\ UNCHANGED <<mainVars, stringVars, eventVars>>

\* the first loop
OutArgvSpaces ==
    /\ apc = "spaces"
    /\ scratch_space' = out_argv_spaces(scratch_space)
    /\ apc' = "trim"
    /\ UNCHANGED buf
    /\ UNCHANGED <<mainVars, stringVars, eventVars>>

\* the second loop
OutArgvTrim ==
    /\ apc = "trim"
    /\ scratch_space' = out_argv_trim(scratch_space)
    /\ apc' = "print"
    /\ UNCHANGED buf
    /\ UNCHANGED <<mainVars, stringVars, eventVars>>

\* out_string(name, scratch_space): `value` is the memory from the start of
\* scratch_space on, i.e. the array and what the stack holds behind it
OutArgvPrint ==
    /\ apc = "print"
    /\ \E after \in AfterField : value' = scratch_space \o after
    /\ field_size' = buf_size
    /\ field_len' = buf_size
    /\ idx' = -1
    /\ text' = << >>
    /\ nread' = 0
    /\ apc' = "string"
    /\ UNCHANGED <<buf, scratch_space, char_signed>>
    /\ UNCHANGED <<mainVars, eventVars>>

\* out_argv called on every array of 2 to MaxBufSize bytes; no call of
\* out_string is in progress
ArgvInit ==
    /\ MainInit(<< >>)
    /\ \E n \in 2..MaxBufSize : buf \in [1..n -> ArgvBytes]
    /\ scratch_space = << >>
    /\ apc = "call"
    /\ value = << 0 >>
    /\ char_signed \in BOOLEAN
    /\ idx = -2
    /\ text = << >>
    /\ field_size = 1
    /\ field_len = 0
    /\ nread = 0
    /\ EventIdle

ArgvNext ==
    \/ OutArgvCopy
    \/ OutArgvSpaces
    \/ OutArgvTrim
    \/ OutArgvPrint
    \/ StringNext

SpecArgv == ArgvInit /\ [][ArgvNext]_vars

---------------------------------------------------------------------------
(* event_ctx_callback(evt_hdr), one printf call at a time.                 *)

\* the transport and family values tried: the ones with a case and one
\* without
Transports == {EBPF_NETWORK_EVENT_TRANSPORT_TCP, 0}
Families == {EBPF_NETWORK_EVENT_AF_INET, EBPF_NETWORK_EVENT_AF_INET6, 0}

\* the type tags of the three network events
NetTypes ==
    { EBPF_EVENT("NETWORK_CONNECTION_ACCEPTED"),
      EBPF_EVENT("NETWORK_CONNECTION_ATTEMPTED"),
      EBPF_EVENT("NETWORK_CONNECTION_CLOSED") }

\* the records the callback is called on: every defined kind, the network
\* kinds with every transport and family tried, and a type of no defined
\* kind
Events ==
    {Event(EBPF_EVENT(k), 0, 0, fu) :
        k \in {n \in Kinds : EBPF_EVENT(n) \notin NetTypes}, fu \in BOOLEAN}
    \cup {Event(t, tr, fa, FALSE) : t \in NetTypes, tr \in Transports, fa \in Families}
    \cup {Event({14}, 0, 0, FALSE)}

\* main() inside ebpf_event_ctx__next, which is about to call the callback
\* on record e of a context constructed with --all
MainInPoll(e) ==
    /\ pc = "drain"
    /\ cmdline = << "all" >>
    /\ argv = << >>
    /\ g_events_env = UINT64_MAX
    /\ g_print_features_init = 0
    /\ g_unbuffer_stdout = 0
    /\ g_libbpf_verbose = 0
    /\ handler = TRUE
    /\ exiting = 0
    /\ err = 0
    /\ verbose_logging = FALSE
    /\ ctx_state = "Running"
    /\ ctx_mask = UINT64_MAX
    /\ ctx_features = {}
    /\ ctx_active = Kinds
    /\ produced = [rb \in Rings |->
                      IF rb = "rb0"
                      THEN << [id |-> 1, type |-> e.type, rb |-> rb] >>
                      ELSE << >>]
    /\ cons = [rb \in Rings |-> IF rb = "rb0" THEN 1 ELSE 0]
    /\ count = 0
    /\ dispatched = << [id |-> 1, type |-> e.type, rb |-> "rb0"] >>
    /\ out = << >>
    /\ errout = << >>
    /\ exit_status = -1

\* the callback is entered: switch (evt_hdr->type) selects the out_* function
CallbackEnter ==
    /\ epc = "call"
    /\ pending' = callback_switch(evt)
    /\ epc' = "print"
    /\ UNCHANGED <<evt, written, ret>>
    /\ UNCHANGED <<mainVars, stringVars, argvVars>>

\* the next printf call of the out_* function
Printf ==
    /\ epc = "print"
    /\ pending # << >>
    /\ written' = Append(written, Head(pending))
    /\ pending' = Tail(pending)
    /\ UNCHANGED <<evt, epc, ret>>
    /\ UNCHANGED <<mainVars, stringVars, argvVars>>

\* return 0;
CallbackReturn ==
    /\ epc = "print"
    /\ pending = << >>
    /\ ret' = 0
    /\ epc' = "returned"
    /\ UNCHANGED <<evt, pending, written>>
    /\ UNCHANGED <<mainVars, stringVars, argvVars>>

EventInit ==
    /\ \E e \in Events : MainInPoll(e) /\ evt = e
    /\ epc = "call"
    /\ pending = << >>
    /\ written = << >>
    /\ ret = -1
    /\ StringIdle
    /\ ArgvIdle

EventNext ==
    \/ CallbackEnter
    \/ Printf
    \/ CallbackReturn

\* one call of the callback, no signal delivered
SpecEvent == EventInit /\ [][EventNext]_vars

SignalNext ==
    \/ EventNext
    \/ SigInt

\* one call of the callback, with SIGINT delivered at any moment
SpecSignal == EventInit /\ [][SignalNext]_vars

---------------------------------------------------------------------------
(* Helpers of the properties.                                              *)

Range(f) == {f[i] : i \in DOMAIN f}

\* every record produced so far
AllRecords == UNION {Range(produced[rb]) : rb \in Rings}

\* the records of ring buffer rb consumed so far, in production order
Consumed(rb) == SubSeq(produced[rb], 1, cons[rb])

\* the type tags of the defined event kinds
KindTypes == {EBPF_EVENT(k) : k \in Kinds}

IsEventLine(l) == l.line = "event"

\* the event lines of stdout, in order
EventLines(o) == SelectSeq(o, IsEventLine)

\* the steps in which main() calls poll and destroy, and the steps in which
\* the dispatch callback runs
PollCalled == pc = "poll" /\ pc' # "poll"
DestroyCalled == pc = "destroy" /\ pc' # "destroy"
CallbackCalled == dispatched' # dispatched

---------------------------------------------------------------------------
(* Lifecycle of the context.                                               *)

\* what one step may do to the context
C1_Step ==
    /\ PollCalled => ctx_state \in Live
    /\ DestroyCalled => ctx_state \in Live
    /\ CallbackCalled => ctx_state \in Live
    /\ ctx_state' # ctx_state =>
          <<ctx_state, ctx_state'>> \in
              { <<"None", "Created">>, <<"Created", "Running">>,
                <<"Running", "Destroyed">>, <<"Created", "Destroyed">> }
    /\ ctx_state' = "Created" /\ ctx_state # "Created" => pc = "ctx_new" /\ err' = 0
    /\ ctx_state = "None" /\ pc # "ctx_new" => ctx_state' = "None"

---------------------------------------------------------------------------
(* The result of poll in the loop.                                         *)

\* stderr holds the message of a fatal poll
PollFailed == \E i \in 1..Len(errout) : errout[i] = "Failed to poll event context"

\* what one step of the loop may do after a poll
C2_Step ==
    /\ pc = "polled" /\ pc' # pc /\ err = -EINTR => pc' = "loop" /\ errout' = errout
    /\ pc = "loop" /\ pc' # pc /\ exiting = 0 => pc' = "poll"
    /\ pc = "polled" /\ pc' # pc /\ err < 0 /\ err # -EINTR =>
          pc' = "destroy" /\ PollFailed'
    /\ PollFailed => ~PollCalled

(* C2.  In the loop a poll result of -EINTR leads back to the loop test,    *)
(* which polls again unless exiting is set; any other negative result       *)
(* leaves the loop at once, and no poll is made after it.                   *)
C2_Interrupted == [][C2_Step]_vars

\* the loop is about to poll again after an interrupted poll
C2_Witness ==
    /\ pc = "poll"
    /\ err = -EINTR
    /\ exiting = 0
    /\ ctx_state = "Running"

---------------------------------------------------------------------------
(* After destroy.                                                          *)

\* what one step may do once the context is destroyed
C3_Step ==
    ctx_state = "Destroyed" =>
        /\ dispatched' = dispatched
        /\ EventLines(out') = EventLines(out)
        /\ ~PollCalled

(* C3.  Once the context is destroyed no record is dispatched and no event  *)
(* line is printed any more.                                                *)
C3_NoDispatchAfterDestroy == [][C3_Step]_vars

\* the program has ended with a destroyed context and a record still
\* waiting in a ring buffer
C3_Witness ==
    /\ pc = "exited"
    /\ ctx_state = "Destroyed"
    /\ Avail # {}

---------------------------------------------------------------------------
(* C4.  Under FairSpec: once exiting is set while a context is live, the    *)
(* context is eventually destroyed (the loop ends); and the program never   *)
(* ends with a live context, so no path after a successful construction     *)
(* skips destroy.                                                           *)
C4_Shutdown ==
    /\ [](pc = "exited" => ctx_state \notin Live)
    /\ (exiting = 1 /\ ctx_state \in Live) ~> (ctx_state = "Destroyed")

\* SIGINT arrived, the interrupted poll ended the loop and the context was
\* destroyed
C4_Witness ==
    /\ pc = "exited"
    /\ exiting = 1
    /\ err = -EINTR
    /\ ctx_state = "Destroyed"

---------------------------------------------------------------------------
(* C5.  Every record handed to the callback, and every event line printed,  *)
(* is of a kind whose bit is set in g_events_env, the mask main() gives to  *)
(* construction.                                                            *)
C5_OnlySelected ==
    /\ \A i \in 1..Len(dispatched) :
          dispatched[i].type # {} /\ dispatched[i].type \subseteq g_events_env
    /\ \A i \in 1..Len(out) :
          IsEventLine(out[i]) =>
              \E r \in AllRecords :
                  /\ r.id = out[i].id
                  /\ r.type # {}
                  /\ r.type \subseteq g_events_env

\* one ring buffer delivered a record of a selected kind and a record of a
\* defined but unselected kind; both are consumed, one line is printed
C5_Witness ==
    /\ pc = "polled"
    /\ \E rb \in Rings :
          /\ cons[rb] = 2
          /\ \E i, j \in 1..2 :
                /\ Selected(produced[rb][i].type, g_events_env)
                /\ produced[rb][j].type \in KindTypes
                /\ ~Selected(produced[rb][j].type, g_events_env)
    /\ Len(EventLines(out)) = 1


---------------------------------------------------------------------------
(* Delivery of the consumed records.                                       *)

\* how often record r was passed to the callback
TimesDispatched(r) == Cardinality({i \in 1..Len(dispatched) : dispatched[i] = r})

\* the dispatched records that came from ring buffer rb, in dispatch order
DispatchedFrom(rb) == SelectSeq(dispatched, LAMBDA r : r.rb = rb)

---------------------------------------------------------------------------
(* Records of no defined kind.                                             *)

\* record r is mentioned by a line of stdout
Reported(r) ==
    \E i \in 1..Len(out) :
        out[i].line \notin {"sigint", "init"} /\ out[i].id = r.id

(* C7.  A record whose type tag is the tag of no defined kind, consumed and *)
(* handed to the callback, is reported: a line of output mentions it; and   *)
(* every well-formed selected record consumed, also after such a record, is *)
(* printed.                                                                 *)
C7_UnknownKindReported ==
    \A rb \in Rings : \A i \in 1..cons[rb] :
        LET r == produced[rb][i] IN
        /\ r.type \notin KindTypes /\ Selected(r.type, ctx_mask) => Reported(r)
        /\ r.type \in KindTypes /\ Selected(r.type, ctx_mask) => Reported(r)

---------------------------------------------------------------------------
(* The selection mask built from the command line.                         *)

\* the event kind each event flag of the command line stands for
FlagKind ==
    [ f \in Options \ {"all", "print-features-on-init", "unbuffer-stdout",
                       "libbpf-verbose"} |->
        CASE f = "file-delete"       -> "FILE_DELETE"
          [] f = "file-create"       -> "FILE_CREATE"
          [] f = "file-rename"       -> "FILE_RENAME"
          [] f = "process-fork"      -> "PROCESS_FORK"
          [] f = "process-exec"      -> "PROCESS_EXEC"
          [] f = "process-exit"      -> "PROCESS_EXIT"
          [] f = "process-setsid"    -> "PROCESS_SETSID"
          [] f = "process-setuid"    -> "PROCESS_SETUID"
          [] f = "process-setgid"    -> "PROCESS_SETGID"
          [] f = "process-tty-write" -> "PROCESS_TTY_WRITE"
          [] f = "net-conn-accept"   -> "NETWORK_CONNECTION_ACCEPTED"
          [] f = "net-conn-attempt"  -> "NETWORK_CONNECTION_ATTEMPTED"
          [] f = "net-conn-closed"   -> "NETWORK_CONNECTION_CLOSED" ]

\* the mask a set of flags asks for
MaskOfFlags(flags) ==
    IF "all" \in flags
    THEN UINT64_MAX
    ELSE UNION {EBPF_EVENT(FlagKind[f]) : f \in flags \cap DOMAIN FlagKind}

(* C8.  Under SpecArgs: the mask given to construction is the union of the  *)
(* bits of the event flags of the command line, each flag giving the bit of *)
(* its own kind, whatever their order and repetition; all-bits-set when     *)
(* --all is among them; the kinds active in the context are the kinds whose *)
(* bit is set in that mask.                                                 *)
C8_MaskIsUnionOfFlags ==
    /\ pc = "ctx_new" => g_events_env = MaskOfFlags(Range(cmdline))
    /\ ctx_state \in Live =>
          /\ ctx_mask = MaskOfFlags(Range(cmdline))
          /\ ctx_active = {k \in Kinds : EBPF_EVENT(k) \subseteq ctx_mask}
          /\ \A f \in Range(cmdline) \cap DOMAIN FlagKind : FlagKind[f] \in ctx_active

\* a context constructed from two different event flags
C8_Witness ==
    /\ ctx_state = "Created"
    /\ Len(cmdline) = 2
    /\ cmdline[1] # cmdline[2]
    /\ Range(cmdline) \subseteq DOMAIN FlagKind
    /\ Cardinality(ctx_mask) = 2

---------------------------------------------------------------------------
---------------------------------------------------------------------------
(* The escapes of out_string.                                              *)

\* the escape of byte b as claimed
ClaimedEscape(b) ==
    CASE b = 10 -> << 92, 110 >>
      [] b = 13 -> << 92, 114 >>
      [] b = 92 -> << 92, 92 >>
      [] b = 34 -> << 92, 34 >>
      [] b = 9  -> << 92, 116 >>
      [] b = 8  -> << 92, 98 >>
      [] OTHER  -> IF b < 32 \/ b >= 127
                   THEN << 92, 120, HexChar(b \div 16), HexChar(b % 16) >>
                   ELSE << b >>

RECURSIVE ClaimedText(_, _)
\* the claimed escapes of the first n bytes of array a
ClaimedText(a, n) ==
    IF n = 0 THEN << >> ELSE ClaimedText(a, n - 1) \o ClaimedEscape(a[n])

(* C10.  Under SpecString: when out_string has returned, the text printed   *)
(* for the string is, byte by byte, \n \r \\ \" \t \b for the six bytes     *)
(* with a short escape, \x and exactly two hexadecimal digits of the byte's *)
(* value for every other control byte and every byte >= 0x80, and the byte  *)
(* itself otherwise; no control or non-ASCII byte is in the output.         *)
C10_EscapesAsClaimed ==
    idx = -2 =>
        /\ text = << 34 >> \o NameChars \o << 34, 58, 34 >>
                  \o ClaimedText(value, strlen(value)) \o << 34 >>
        /\ \A i \in 1..Len(text) : text[i] >= 32 /\ text[i] <= 126

---------------------------------------------------------------------------
(* C11.  Under SpecField: printing a fixed-capacity char array of an event  *)
(* reads only bytes of the array, i.e. at most field_size leading bytes of  *)
(* the memory that starts at the array, whatever the array holds.           *)
C11_ReadsWithinField == nread <= field_size

---------------------------------------------------------------------------
(* The argv member.                                                        *)

\* the index of the last byte of array a that is not NUL, 0 if there is none
LastNonNul(a) ==
    IF \E i \in 1..Len(a) : a[i] # 0
    THEN CHOOSE i \in 1..Len(a) : a[i] # 0 /\ \A j \in (i + 1)..Len(a) : a[j] = 0
    ELSE 0

\* the arguments of array a joined by single spaces: the array without its
\* trailing NUL bytes (the last terminator and the padding), every remaining
\* NUL, which separates two arguments, turned into a space
JoinedArgv(a) == [i \in 1..LastNonNul(a) |-> IF a[i] = 0 THEN 32 ELSE a[i]]

(* C12.  Under SpecArgv: when out_argv has printed the array, the string    *)
(* printed is the arguments joined by single spaces: nothing of the         *)
(* trailing terminator or padding remains, no character of an argument is   *)
(* missing (the bytes tried need no escape).                                *)
C12_ArgvJoined ==
    apc = "string" /\ idx = -2 =>
        text = << 34 >> \o NameChars \o << 34, 58, 34 >>
               \o JoinedArgv(buf) \o << 34 >>

\* what one step of out_argv may do to the two arrays
C19_Step ==
    /\ buf' = buf
    /\ apc' \in {"print", "string"} =>
          \E i \in 1..Len(scratch_space') : scratch_space'[i] = 0
    /\ nread' <= Len(buf')

(* C19.  Under SpecArgv: once out_argv has rewritten its scratch copy, the  *)
(* copy holds a NUL byte inside its buf_size bytes, whatever the argv array *)
(* held, so that printing it reads no byte behind the copy; the argv array  *)
(* of the event is never written.                                           *)
C19_ScratchTerminated == [][C19_Step]_vars

---------------------------------------------------------------------------
(* The line the callback prints for one record.                            *)

\* the fields of the record read by the printf calls made so far
FieldsRead == {written[i].field : i \in 1..Len(written)} \ {""}

\* the positions of `written` that hold a member called n
MembersNamed(n) ==
    {i \in 1..Len(written) : written[i].tok = "member" /\ written[i].name = n}

\* the name of the event kind with type tag t
KindOf(t) == CHOOSE k \in Kinds : EBPF_EVENT(k) = t

RECURSIVE Depth(_)
\* the number of objects open after the first n tokens of `written`
Depth(n) ==
    IF n = 0 THEN 0
    ELSE Depth(n - 1) + (CASE written[n].tok = "{" -> 1
                           [] written[n].tok = "}" -> -1
                           [] OTHER -> 0)

(* C13.  Under SpecEvent: the callback reads the 4-byte fields saddr and    *)
(* daddr only for a record of family AF_INET and the 16-byte fields saddr6  *)
(* and daddr6 only for a record of family AF_INET6, with those lengths; a   *)
(* network record of either family has both of its own addresses printed    *)
(* when the callback returns; the fields of the other family are never      *)
(* read.                                                                    *)
C13_FamilyTagged ==
    /\ \A i \in 1..Len(written) :
          /\ written[i].field \in {"saddr", "daddr"} =>
                /\ evt.family = EBPF_NETWORK_EVENT_AF_INET
                /\ written[i].len = 4
          /\ written[i].field \in {"saddr6", "daddr6"} =>
                /\ evt.family = EBPF_NETWORK_EVENT_AF_INET6
                /\ written[i].len = 16
    /\ ret = 0 /\ evt.type \in NetTypes =>
          /\ evt.family = EBPF_NETWORK_EVENT_AF_INET =>
                FieldsRead \cap {"saddr", "daddr", "saddr6", "daddr6"}
                    = {"saddr", "daddr"}
          /\ evt.family = EBPF_NETWORK_EVENT_AF_INET6 =>
                FieldsRead \cap {"saddr", "daddr", "saddr6", "daddr6"}
                    = {"saddr6", "daddr6"}

\* the callback has printed an AF_INET6 network record with both of its
\* 16-byte addresses
C13_Witness ==
    /\ ret = 0
    /\ evt.type \in NetTypes
    /\ evt.family = EBPF_NETWORK_EVENT_AF_INET6
    /\ {"saddr6", "daddr6"} \subseteq FieldsRead
    /\ \E i \in MembersNamed("source_address") : written[i].len = 16

(* C16.  Under SpecEvent: for a record of each of the 13 defined kinds the  *)
(* callback, when it has returned, has written exactly one object followed  *)
(* by the only newline, with exactly one top-level event_type member whose  *)
(* value is the name of the record's kind; and the callback returns 0.      *)
C16_OneLinePerEvent ==
    /\ ret \in {-1, 0}
    /\ epc = "returned" => ret = 0
    /\ ret = 0 /\ evt.type \in KindTypes =>
          LET n == Len(written) IN
          /\ n >= 4
          /\ written[1].tok = "{"
          /\ written[n - 1].tok = "}"
          /\ written[n].tok = "nl"
          /\ \A i \in 1..(n - 1) : written[i].tok # "nl"
          /\ \A i \in 1..(n - 2) : Depth(i) >= 1
          /\ Depth(n - 1) = 0
          /\ Cardinality(MembersNamed("event_type")) = 1
          /\ \A i \in MembersNamed("event_type") :
                /\ written[i].val = KindOf(evt.type)
                /\ Depth(i) = 1

\* the callback has returned from an accepted-connection record, printed
\* under its own name
C16_Witness ==
    /\ ret = 0
    /\ evt.type = EBPF_EVENT("NETWORK_CONNECTION_ACCEPTED")
    /\ \E i \in MembersNamed("event_type") :
          written[i].val = "NETWORK_CONNECTION_ACCEPTED"
    /\ written[Len(written)].tok = "nl"

\* the tokens that end a value and the tokens that begin one
EndsValue(t) == t.tok \in {"member", "}"}
BeginsValue(t) == t.tok \in {"member", "key"}

(* C20.  Under SpecEvent: in the line printed for a network record of any   *)
(* transport, family and kind, every comma stands between two members: no   *)
(* comma follows an opening brace or another comma, none precedes a closing *)
(* brace, and two consecutive members have a comma between them.            *)
C20_NetObjectCommas ==
    evt.type \in NetTypes =>
        \A i \in 1..(Len(written) - 1) :
            LET a == written[i]
                b == written[i + 1]
            IN  /\ b.tok = "," => EndsValue(a)
                /\ a.tok = "," => BeginsValue(b)
                /\ EndsValue(a) => b.tok \in {",", "}", "nl"}

\* the fields of a record that hold a variable-length capture, and the name
\* of the member that would carry the truncation flag of each
TruncationFlag ==
    [ f \in {"path", "old_path", "new_path", "filename", "cwd",
             "pids_ss_cgroup_path", "argv", "tty_out"} |->
        CASE f = "path"                -> "path_truncated"
          [] f = "old_path"            -> "old_path_truncated"
          [] f = "new_path"            -> "new_path_truncated"
          [] f = "filename"            -> "filename_truncated"
          [] f = "cwd"                 -> "cwd_truncated"
          [] f = "pids_ss_cgroup_path" -> "pids_ss_cgroup_path_truncated"
          [] f = "argv"                -> "argv_truncated"
          [] f = "tty_out"             -> "tty_out_truncated" ]

(* C15.  Under SpecEvent: when the callback has returned from a record      *)
(* whose variable-length fields were captured up to their capacity, the     *)
(* line holds, for every such field it prints, a member that carries the    *)
(* truncation flag of that field.                                           *)
C15_TruncationSurfaced ==
    ret = 0 /\ evt.full =>
        \A f \in FieldsRead \cap DOMAIN TruncationFlag :
            MembersNamed(TruncationFlag[f]) # {}

---------------------------------------------------------------------------
(* SIGINT while the callback prints.                                       *)

\* the tokens that end a line of stdout
EndsLine(t) == t.tok \in {"nl", "sigint"}

\* the positions of `written` that hold the notice of the handler
Notices == {i \in 1..Len(written) : written[i] = SigintNotice}

(* C17.  Under SpecSignal: whenever SIGINT is delivered, the notice of the  *)
(* handler starts a line of its own - stdout is empty or ends with a        *)
(* newline where the notice is written - so that every line is a complete   *)
(* event object or the notice; and the notice is written at most once.      *)
C17_NoticeOnOwnLine ==
    /\ Cardinality(Notices) <= 1
    /\ \A i \in Notices : i = 1 \/ EndsLine(written[i - 1])

---------------------------------------------------------------------------
(* The tty_out member.                                                     *)

RECURSIVE PrintedBytes(_, _, _)
\* what out_string prints for the first n bytes of array a, each one escaped
\* as the loop body escapes it
PrintedBytes(a, n, signed) ==
    IF n = 0 THEN << >>
    ELSE PrintedBytes(a, n - 1, signed) \o out_string_char(AsChar(a[n], signed))

(* C14.  Under SpecField: for a tty-write record with tty_out_truncated = 0 *)
(* the string printed for tty_out is, escape by escape, the tty_out_len     *)
(* captured bytes - all of them and nothing more - whatever they are.       *)
C14_TtyOutLengthFaithful ==
    idx = -2 /\ tty_out_truncated = 0 =>
        /\ strlen(value) = tty_out_len
        /\ text = << 34 >> \o NameChars \o << 34, 58, 34 >>
                  \o PrintedBytes(value, tty_out_len, char_signed) \o << 34 >>

---------------------------------------------------------------------------
(* The exit status.                                                        *)

\* one of the steps of main() failed: a failure message is on stderr (the
\* handler could not be registered, a usage error, stdout could not be
\* unbuffered, no context could be constructed, a poll failed with a result
\* other than -EINTR), or argp_parse returned an error
FailureOccurred ==
    \/ errout # << >>
    \/ ctx_state = "None" /\ err = ENOMEM

(* C18.  When the process has ended, its exit status is non-zero exactly    *)
(* when one of the steps of main() failed; a run ended by SIGINT with no    *)
(* failure ends with status 0 whatever the last poll returned.              *)
C18_ExitStatus ==
    pc = "exited" => (exit_status # 0 <=> FailureOccurred)

---------------------------------------------------------------------------
(* The init message.                                                       *)

\* the positions of stdout that hold the init message
InitLines == {i \in 1..Len(out) : out[i].line = "init"}

\* main() is past the place where it prints the init message
PastInitMsg ==
    pc \in {"loop", "poll", "drain", "polled", "destroy"}
    \/ (pc \in {"out", "exited"} /\ ctx_state # "None")

(* C21.  The init message is printed at most once; it is on stdout exactly  *)
(* when --print-features-on-init was given, construction succeeded and main *)
(* went on from there, which is before the first poll (the context is still *)
(* Created and nothing is dispatched when main is about to print it); no    *)
(* event line precedes it; its bpf_tramp value is true exactly when the     *)
(* trampoline bit is set in the feature mask of the context.  Without the   *)
(* flag, or when no context was constructed, it is never printed.           *)
C21_InitMessage ==
    /\ Cardinality(InitLines) <= 1
    /\ InitLines # {} <=> (g_print_features_init # 0 /\ PastInitMsg)
    /\ g_print_features_init = 0 \/ ctx_state = "None" => InitLines = {}
    /\ pc = "init_msg" =>
          ctx_state = "Created" /\ err = 0 /\ dispatched = << >>
    /\ \A i \in InitLines :
          /\ \A j \in 1..(i - 1) : ~IsEventLine(out[j])
          /\ out[i].bpf_tramp <=> (EBPF_FEATURE_BPF_TRAMP \subseteq ctx_features)

\* the init message, reporting no trampoline support, is on stdout in front
\* of an event line
C21_Witness ==
    /\ g_print_features_init # 0
    /\ ctx_features = {}
    /\ \E i \in InitLines :
          /\ ~out[i].bpf_tramp
          /\ \E j \in (i + 1)..Len(out) : IsEventLine(out[j])

=============================================================================
